---- MODULE Spec2Model ----
(***************************************************************************)
(* useSafeActionQuery (src/src/index.ts): the fetch function handed to the *)
(* query engine, its retry policy, and the engine's attempt loop around    *)
(* them.                                                                   *)
(*                                                                         *)
(* JavaScript values are tagged records: the field t is the runtime type,  *)
(* and every other field name carries one TLA+ type wherever it occurs.    *)
(***************************************************************************)
EXTENDS Naturals, Sequences, FiniteSets, TLC

\* ------------------------------------------------------------------ bounds

\* Longest top-level _errors list an action outcome carries.
MaxErrors == 2

\* Most calls of the action in one fetch; the built-in retry policy stops
\* earlier, a retry option of the caller's may not.
MaxInvocations == 5

\* ---------------------------------------------------------------- JS values

Undefined == [t |-> "undefined"]
Null == [t |-> "null"]
Str(s) == [t |-> "string", v |-> s]
Num(s) == [t |-> "number", v |-> s]
Bool(s) == [t |-> "boolean", v |-> s]
Obj(s) == [t |-> "object", v |-> s]
Arr(items) == [t |-> "array", items |-> items]

\* A function value, known by its name.
Fn(name) == [t |-> "function", v |-> name]

\* The number a numeral stands for.
NumberValue(x) ==
    CASE x.v = "0" -> 0
      [] x.v = "1" -> 1
      [] x.v = "2" -> 2
      [] x.v = "30000" -> 30000
      [] x.v = "60000" -> 60000

\* new Error(message): ref is the object's identity.
NewError(message, ref) == [t |-> "Error", message |-> message, ref |-> ref]

\* ToBoolean, as the conditions `if (x)` and `a || b` apply it.
Truthy(x) ==
    CASE x.t \in {"undefined", "null"} -> FALSE
      [] x.t = "string" -> x.v # ""
      [] x.t = "number" -> x.v \notin {"0", "NaN"}
      [] x.t = "boolean" -> x.v = "true"
      [] OTHER -> TRUE

\* x === undefined || x === null
IsNullish(x) == x.t \in {"undefined", "null"}

\* a ?? b
Coalesce(a, b) == IF IsNullish(a) THEN b ELSE a

\* result?.key : undefined when result is nullish or has no such property.
OptGet(result, key) ==
    IF IsNullish(result) THEN Undefined
    ELSE IF key \in DOMAIN result THEN result[key] ELSE Undefined

\* Array.prototype.join on a list of strings.
RECURSIVE Join(_, _)
Join(items, sep) ==
    IF Len(items) = 0 THEN ""
    ELSE IF Len(items) = 1 THEN items[1]
    ELSE items[1] \o sep \o Join(Tail(items), sep)

\* --------------------------------------------------------- SafeActionError

\* class SafeActionError extends Error: constructor(message, type, details?)
\* Mutant: the constructor without this.name = "SafeActionError".
SafeActionError_NoName(message, type, details) ==
    [t |-> "SafeActionError", name |-> "Error", message |-> message,
     type |-> type, details |-> details]

SafeActionError(message, type, details) ==
    [t |-> "SafeActionError", name |-> "SafeActionError", message |-> message,
     type |-> type, details |-> details]

\* error instanceof SafeActionError
IsSafeActionError(e) == e.t = "SafeActionError"

\* error instanceof Error (SafeActionError extends Error)
IsError(e) == e.t \in {"Error", "SafeActionError"}

\* ------------------------------------------------------ caller's callbacks

\* A callback option: not supplied, returns normally, throws an Error object,
\* or throws a value that is no Error object.
CallbackModes == {"absent", "returns", "throwsError", "throwsValue"}

CallbackThrown(mode) ==
    IF mode = "throwsError" THEN NewError("callback failed", "cb")
    ELSE Str("callback failed")

\* cb?.(arg): no call when the callback is absent; otherwise one call, which
\* returns or throws.
Invoke(mode, name, arg) ==
    IF mode = "absent" THEN [threw |-> FALSE, thrown |-> Undefined, log |-> <<>>]
    ELSE [threw |-> mode \in {"throwsError", "throwsValue"},
          thrown |-> IF mode \in {"throwsError", "throwsValue"}
                     THEN CallbackThrown(mode) ELSE Undefined,
          log |-> <<[cb |-> name, arg |-> arg]>>]

\* The three kinds of SafeActionError.
ErrorTypes == {"server", "validation", "network"}

\* x is a SafeActionError of one of the three kinds.
Classified(x) == IsSafeActionError(x) /\ x.type \in ErrorTypes

\* ------------------------------------------------------------------ queryFn

Return(value, log) == [kind |-> "return", value |-> value, log |-> log]
Throw(value, log) == [kind |-> "throw", value |-> value, log |-> log]

\* Mutant: the message without its fallback, errors.join(", ").
ValidationMessage_NoFallback(errors) == Join(errors.items, ", ")

\* errors.join(", ") || "Validation failed"
ValidationMessage(errors) ==
    LET joined == Str(Join(errors.items, ", "))
    IN  IF Truthy(joined) THEN joined.v ELSE "Validation failed"

\* Mutant: the server error thrown without telling onServerError.
ServerErrorBranch_NoCallback(serverError, o) ==
    Throw(SafeActionError(serverError.v, "server", Undefined), <<>>)

\* if (result?.serverError) { onServerError?.(...); throw new SafeActionError(...) }
ServerErrorBranch(serverError, o) ==
    LET c == Invoke(o.onServerError, "onServerError", serverError)
    IN  IF c.threw THEN Throw(c.thrown, c.log)
        ELSE Throw(SafeActionError(serverError.v, "server", Undefined), c.log)

\* if (result?.validationErrors) { ... throw new SafeActionError(...) }
ValidationErrorsBranch(validationErrors, o) ==
    LET errors == Coalesce(validationErrors._errors, Arr(<<>>))
        c == Invoke(o.onValidationErrors, "onValidationErrors", errors)
    IN  IF c.threw THEN Throw(c.thrown, c.log)
        ELSE Throw(SafeActionError(ValidationMessage(errors), "validation",
                                   validationErrors), c.log)

\* Mutant: only undefined counts as missing, result?.data === undefined.
DataMissing_UndefinedOnly(data) == data = Undefined

\* Mutant: every falsy value counts as missing, !result?.data.
DataMissing_Falsy(data) == ~Truthy(data)

\* Mutant: the number 0 counts as missing too.
DataMissing_ZeroToo(data) == data = Undefined \/ data = Null \/ data = Num("0")

\* result?.data === undefined || result?.data === null
DataMissing(data) == data = Undefined \/ data = Null

\* Mutant: the missing-data error reported to onServerError.
DataBranch_TellsOnServerError(data) ==
    IF DataMissing(data)
    THEN Throw(SafeActionError("No data returned from action", "server", Undefined),
               <<[cb |-> "onServerError", arg |-> Str("No data returned from action")]>>)
    ELSE Return(data, <<>>)

\* The data check and the return that follows it.
DataBranch(data) ==
    IF DataMissing(data)
    THEN Throw(SafeActionError("No data returned from action", "server", Undefined), <<>>)
    ELSE Return(data, <<>>)

\* Mutant: the server error test as result?.serverError !== undefined.
TryBlock_ServerErrorDefined(settled, o) ==
    IF settled.kind = "rejected" THEN Throw(settled.value, <<>>)
    ELSE
    LET result == settled.value
    IN  IF OptGet(result, "serverError") # Undefined
        THEN ServerErrorBranch(OptGet(result, "serverError"), o)
        ELSE IF Truthy(OptGet(result, "validationErrors"))
        THEN ValidationErrorsBranch(OptGet(result, "validationErrors"), o)
        ELSE DataBranch(OptGet(result, "data"))

\* The body of the try block, from the settled action call on: a rejected
\* call throws what it rejected with.
TryBlock(settled, o) ==
    IF settled.kind = "rejected" THEN Throw(settled.value, <<>>)
    ELSE
    LET result == settled.value
    IN  IF Truthy(OptGet(result, "serverError"))
        THEN ServerErrorBranch(OptGet(result, "serverError"), o)
        ELSE IF Truthy(OptGet(result, "validationErrors"))
        THEN ValidationErrorsBranch(OptGet(result, "validationErrors"), o)
        ELSE DataBranch(OptGet(result, "data"))

\* Mutant: the catch block without its instanceof SafeActionError test.
CatchBlock_AlwaysWrap(c, o) ==
    IF c.kind = "return" THEN c
    ELSE
    LET networkError == IF IsError(c.value) THEN c.value
                        ELSE NewError("Unknown error occurred", "fresh")
        n == Invoke(o.onNetworkError, "onNetworkError", networkError)
    IN  IF n.threw THEN Throw(n.thrown, c.log \o n.log)
        ELSE Throw(SafeActionError("Network error: " \o networkError.message,
                                   "network", networkError), c.log \o n.log)

\* The catch block, applied to the try block's completion.
CatchBlock(c, o) ==
    IF c.kind = "return" THEN c
    ELSE IF IsSafeActionError(c.value) THEN c
    ELSE
    LET networkError == IF IsError(c.value) THEN c.value
                        ELSE NewError("Unknown error occurred", "fresh")
        n == Invoke(o.onNetworkError, "onNetworkError", networkError)
    IN  IF n.threw THEN Throw(n.thrown, c.log \o n.log)
        ELSE Throw(SafeActionError("Network error: " \o networkError.message,
                                   "network", networkError), c.log \o n.log)

\* queryFn, from the point where `await action(actionInput)` settles.
queryFn(settled, o) == CatchBlock(TryBlock(settled, o), o)

\* -------------------------------------------------------------------- retry

RetryLimit == 3

\* Mutant: the bound one too far, failureCount <= 3.
retry_OffByOne(failureCount, error) ==
    IF IsSafeActionError(error) /\ error.type = "validation" THEN FALSE
    ELSE IF IsSafeActionError(error) /\ error.type = "server" THEN FALSE
    ELSE failureCount <= RetryLimit

\* Mutant: the check for server errors left out.
retry_ServerRetried(failureCount, error) ==
    IF IsSafeActionError(error) /\ error.type = "validation" THEN FALSE
    ELSE failureCount < RetryLimit

\* Mutant: a decision that looks at the error's details.
retry_ReadsDetails(failureCount, error) ==
    IF IsSafeActionError(error) /\ error.type = "validation" THEN FALSE
    ELSE IF IsSafeActionError(error) /\ error.type = "server" THEN FALSE
    ELSE failureCount < RetryLimit /\ error.details # Undefined

\* retry: (failureCount, error) => boolean
retry(failureCount, error) ==
    IF IsSafeActionError(error) /\ error.type = "validation" THEN FALSE
    ELSE IF IsSafeActionError(error) /\ error.type = "server" THEN FALSE
    ELSE failureCount < RetryLimit

\* ------------------------------------------------- options handed to useQuery

\* An object with no property.
NoOverrides == [k \in {} |-> Undefined]

\* Mutant: the spread first, { ...b, ...a }: the first object's properties win.
Spread_FirstWins(a, b) ==
    [k \in DOMAIN a \cup DOMAIN b |-> IF k \in DOMAIN a THEN a[k] ELSE b[k]]

\* { ...a, ...b }: every property of b, present ones with value undefined
\* included, replaces a's.
Spread(a, b) ==
    [k \in DOMAIN a \cup DOMAIN b |-> IF k \in DOMAIN b THEN b[k] ELSE a[k]]

\* Mutant: the caller's queryOptions left out of the useQuery call.
UseQueryOptions_Dropped(queryOptions) ==
    [retry |-> Fn("retry"), staleTime |-> Num("30000"), throwOnError |-> Bool("false")]

\* Mutant: the built-in retry written after the spread of queryOptions.
UseQueryOptions_RetryLast(queryOptions) ==
    Spread(Spread([staleTime |-> Num("30000"), throwOnError |-> Bool("false")],
                  queryOptions),
           [retry |-> Fn("retry")])

\* The options object of the useQuery call, the caller's queryOptions spread
\* last (queryKey and queryFn are not the caller's to give).
UseQueryOptions(queryOptions) ==
    Spread([retry |-> Fn("retry"), staleTime |-> Num("30000"),
            throwOnError |-> Bool("false")],
           queryOptions)

\* --------------------------------------------------- what the action yields

ErrorStrings == {"", "a"}

\* The lists of at most n strings drawn from S.
SeqsUpTo(S, n) == UNION {[1..k -> S] : k \in 0..n}

\* validationErrors: { _errors?: string[], field?: { _errors: string[] } }
Tree(errors, field) == [t |-> "tree", _errors |-> errors, field |-> field]

FieldTrees == {Undefined, Tree(Arr(<<"Field is required">>), Undefined)}

ValidationTrees ==
    {Tree(e, f) : e \in {Undefined} \cup {Arr(l) : l \in SeqsUpTo(ErrorStrings, MaxErrors)},
                  f \in FieldTrees}

ServerErrors == {Undefined, Str(""), Str("Server error occurred")}

DataValues == {Undefined, Null, Num("0"), Bool("false"), Str(""), Obj("{id:1}")}

\* The object the action resolves with; a property that is not present reads
\* as undefined.
ActionResult(data, serverError, validationErrors) ==
    [t |-> "result", data |-> data, serverError |-> serverError,
     validationErrors |-> validationErrors]

Results ==
    {Undefined} \cup
    {ActionResult(d, s, v) : d \in DataValues, s \in ServerErrors,
                             v \in {Undefined} \cup ValidationTrees}

\* What the action call may reject with: Error objects, values that are no
\* Error object, and an error that already is a SafeActionError.
Rejections ==
    {NewError("Network failure", "e1"), NewError("", "e2"),
     Str("oops"), Obj("{code:500}"),
     SafeActionError("Denied", "server", Undefined)}

Outcomes ==
    {[kind |-> "resolved", value |-> r] : r \in Results} \cup
    {[kind |-> "rejected", value |-> x] : x \in Rejections}

\* The hook's options with no engine option among them.
Options ==
    [onServerError : CallbackModes, onValidationErrors : CallbackModes,
     onNetworkError : CallbackModes, queryOptions : {NoOverrides}]

\* -------------------------------------------------------------------- state

VARIABLES
    opts,          \* the hook's options: the callbacks and the engine options
    pc,            \* idle | fetching | attempted | waiting | success | error
    invocations,   \* calls of action(actionInput) in this fetch
    failureCount,  \* the engine's count of failed attempts
    settled,       \* how the current attempt's action call settled
    completion,    \* how the current attempt's queryFn completed
    history,       \* per completed attempt: how the call settled, how queryFn ended
    query,         \* the query state the caller observes
    probe,         \* a call of retry on its own: its arguments and result
    options,       \* the options object useQuery was called with
    conc           \* hooks with different keys fetching side by side

vars == <<opts, pc, invocations, failureCount, settled, completion, history, query, probe, options, conc>>

None == [kind |-> "none"]

\* No hook beside the one under study.
NoHooks == [k \in {} |-> None]

\* How an attempt ended, for the history: success, the SafeActionError's type,
\* or raw when what queryFn threw is no SafeActionError.
KindOf(c) ==
    IF c.kind = "return" THEN "success"
    ELSE IF IsSafeActionError(c.value) THEN c.value.type
    ELSE "raw"

Init ==
    /\ opts \in Options
    /\ pc = "idle"
    /\ invocations = 0
    /\ failureCount = 0
    /\ settled = None
    /\ completion = None
    /\ history = <<>>
    /\ query = [status |-> "pending", fetchStatus |-> "idle",
                data |-> Undefined, error |-> Null]
    /\ probe = None
    /\ options = UseQueryOptions(opts.queryOptions)
    /\ conc = NoHooks

\* The engine fetches on mount unless the options say enabled: false.
Enabled == ~("enabled" \in DOMAIN options /\ options["enabled"] = Bool("false"))

\* The engine's decision after a failed attempt, from the retry option it was
\* handed: a function is called with (failureCount, error), true retries
\* always, false never, a number n while failureCount < n.
ShouldRetry(count, error) ==
    LET r == options["retry"]
    IN  CASE r.t = "function" -> retry(count, error)
          [] r.t = "boolean" -> r.v = "true"
          [] r.t = "number" -> count < NumberValue(r)

\* The engine runs queryFn, which calls action(actionInput) and awaits it.
StartAttempt ==
    /\ \/ pc = "idle" /\ Enabled
       \/ pc = "waiting"
    /\ invocations < MaxInvocations
    /\ pc' = "fetching"
    /\ invocations' = invocations + 1
    /\ settled' = None
    /\ completion' = None
    /\ query' = [query EXCEPT !.fetchStatus = "fetching"]
    /\ UNCHANGED <<opts, failureCount, history, probe, options, conc>>

\* The action call settles and queryFn runs to its end.
ActionSettles(outcome) ==
    /\ pc = "fetching"
    /\ pc' = "attempted"
    /\ settled' = outcome
    /\ completion' = queryFn(outcome, opts)
    /\ history' = Append(history, [settled |-> outcome.kind,
                                    kind |-> KindOf(queryFn(outcome, opts))])
    /\ UNCHANGED <<opts, invocations, failureCount, query, probe, options, conc>>

\* queryFn returned: the query settles in success.
EngineResolve ==
    /\ pc = "attempted"
    /\ completion.kind = "return"
    /\ pc' = "success"
    /\ query' = [status |-> "success", fetchStatus |-> "idle",
                 data |-> completion.value, error |-> Null]
    /\ UNCHANGED <<opts, invocations, failureCount, settled, completion, history, probe, options, conc>>

\* queryFn threw and the retry option says to go again.
EngineRetry ==
    /\ pc = "attempted"
    /\ completion.kind = "throw"
    /\ ShouldRetry(failureCount, completion.value)
    /\ invocations < MaxInvocations
    /\ pc' = "waiting"
    /\ failureCount' = failureCount + 1
    /\ UNCHANGED <<opts, invocations, settled, completion, history, query, probe, options, conc>>

\* queryFn threw and the retry option says to stop: the query settles in
\* error.
EngineReject ==
    /\ pc = "attempted"
    /\ completion.kind = "throw"
    /\ ~ShouldRetry(failureCount, completion.value)
    /\ pc' = "error"
    /\ query' = [status |-> "error", fetchStatus |-> "idle",
                 data |-> Undefined, error |-> completion.value]
    /\ UNCHANGED <<opts, invocations, failureCount, settled, completion, history, probe, options, conc>>

Next ==
    \/ StartAttempt
    \/ \E outcome \in Outcomes : ActionSettles(outcome)
    \/ EngineResolve
    \/ EngineRetry
    \/ EngineReject

Spec == Init /\ [][Next]_vars

\* The action call settles and the engine takes its steps.
LiveSpec == Spec /\ WF_vars(Next)

\* ------------------------------------------ the hook with engine options

\* The object { k: v }.
Property(k, v) == [x \in {k} |-> v]

\* The queryOptions callers pass: each of enabled, retry, staleTime and
\* throwOnError left out or given.
CallerQueryOptions ==
    {Spread(Spread(Spread(e, r), s), th) :
        e \in {NoOverrides} \cup {Property("enabled", v) : v \in {Bool("false"), Bool("true")}},
        r \in {NoOverrides} \cup {Property("retry", v) : v \in {Bool("false"), Bool("true"), Num("1")}},
        s \in {NoOverrides} \cup {Property("staleTime", v) : v \in {Num("0"), Num("60000"), Undefined}},
        th \in {NoOverrides} \cup {Property("throwOnError", v) : v \in {Bool("true")}}}

\* Actions that succeed, return no data, return a server error, return
\* validation errors, or reject.
FewOutcomes ==
    {[kind |-> "resolved", value |-> ActionResult(Obj("{id:1}"), Undefined, Undefined)],
     [kind |-> "resolved", value |-> ActionResult(Null, Undefined, Undefined)],
     [kind |-> "resolved", value |-> ActionResult(Undefined, Str("Server error occurred"), Undefined)],
     [kind |-> "resolved", value |-> ActionResult(Undefined, Undefined, Tree(Arr(<<"a">>), Undefined))],
     [kind |-> "rejected", value |-> NewError("Network failure", "e1")]}

HookInit ==
    /\ opts \in {[onServerError |-> m, onValidationErrors |-> m, onNetworkError |-> m,
                  queryOptions |-> q] : m \in CallbackModes, q \in CallerQueryOptions}
    /\ pc = "idle"
    /\ invocations = 0
    /\ failureCount = 0
    /\ settled = None
    /\ completion = None
    /\ history = <<>>
    /\ query = [status |-> "pending", fetchStatus |-> "idle",
                data |-> Undefined, error |-> Null]
    /\ probe = None
    /\ options = UseQueryOptions(opts.queryOptions)
    /\ conc = NoHooks

HookNext ==
    \/ StartAttempt
    \/ \E outcome \in FewOutcomes : ActionSettles(outcome)
    \/ EngineResolve
    \/ EngineRetry
    \/ EngineReject

HookSpec == HookInit /\ [][HookNext]_vars

\* ------------------------------------------------- retry called on its own

\* Largest attempt count retry is called with on its own.
MaxFailureCount == 5

\* SafeActionErrors of every type, with differing messages and details.
ClassifiedErrors ==
    {SafeActionError(m, k, d) :
        m \in {"Server error occurred", "Network error: Network failure"},
        k \in {"server", "validation", "network"},
        d \in {Undefined, NewError("Network failure", "e1"),
               Tree(Arr(<<"a">>), Undefined)}}

RetryInit ==
    /\ opts = [onServerError |-> "absent", onValidationErrors |-> "absent",
               onNetworkError |-> "absent", queryOptions |-> NoOverrides]
    /\ pc = "idle"
    /\ invocations = 0
    /\ failureCount = 0
    /\ settled = None
    /\ completion = None
    /\ history = <<>>
    /\ query = [status |-> "pending", fetchStatus |-> "idle",
                data |-> Undefined, error |-> Null]
    /\ probe \in [kind : {"probe"}, failureCount : 0..MaxFailureCount,
                  error : ClassifiedErrors, called : {FALSE}, returned : {FALSE},
                  failureCount2 : 0..MaxFailureCount, error2 : ClassifiedErrors,
                  called2 : {FALSE}, returned2 : {FALSE}]
    /\ options = UseQueryOptions(opts.queryOptions)
    /\ conc = NoHooks

\* One call retry(failureCount, error).
CallRetry ==
    /\ probe.kind = "probe"
    /\ ~probe.called
    /\ probe' = [probe EXCEPT !.called = TRUE,
                              !.returned = retry(probe.failureCount, probe.error)]
    /\ UNCHANGED <<opts, pc, invocations, failureCount, settled, completion,
                   history, query, options, conc>>

\* A second call of the same function, after the first.
CallRetryAgain ==
    /\ probe.kind = "probe"
    /\ probe.called /\ ~probe.called2
    /\ probe' = [probe EXCEPT !.called2 = TRUE,
                              !.returned2 = retry(probe.failureCount2, probe.error2)]
    /\ UNCHANGED <<opts, pc, invocations, failureCount, settled, completion,
                   history, query, options, conc>>

RetryNext == CallRetry \/ CallRetryAgain

RetrySpec == RetryInit /\ [][RetryNext]_vars

\* ------------------------------------------- SafeActionError made on its own

\* Messages, and the values given as details.
Messages == {"", "Test message", "Network error: Network failure"}
Details ==
    {Undefined, Null, Obj("{code:500}"), NewError("Network failure", "e1"),
     Tree(Arr(<<"a">>), Undefined)}

\* The argument lists of new SafeActionError(...): two arguments, or three.
ArgumentLists ==
    [message : Messages, type : ErrorTypes, given : {2}, details : {Undefined}]
        \cup [message : Messages, type : ErrorTypes, given : {3}, details : Details]

\* new SafeActionError(...args): a parameter with no argument is undefined.
New(args) ==
    SafeActionError(args.message, args.type,
                    IF args.given >= 3 THEN args.details ELSE Undefined)

ConstructInit ==
    /\ opts \in [onServerError : {"absent"}, onValidationErrors : {"absent"},
                 onNetworkError : {"absent", "returns"}, queryOptions : {NoOverrides}]
    /\ pc = "idle"
    /\ invocations = 0
    /\ failureCount = 0
    /\ settled = None
    /\ completion = None
    /\ history = <<>>
    /\ query = [status |-> "pending", fetchStatus |-> "idle",
                data |-> Undefined, error |-> Null]
    /\ probe \in [kind : {"construct"}, args : ArgumentLists, made : {FALSE},
                  error : {Null}, caught : {FALSE}, rethrown : {Null}]
    /\ options = UseQueryOptions(opts.queryOptions)
    /\ conc = NoHooks

\* The constructor runs.
Construct ==
    /\ probe.kind = "construct"
    /\ ~probe.made
    /\ probe' = [probe EXCEPT !.made = TRUE, !.error = New(probe.args)]
    /\ UNCHANGED <<opts, pc, invocations, failureCount, settled, completion,
                   history, query, options, conc>>

\* The error is thrown inside the try block and leaves through the catch
\* block.
CatchConstructed ==
    /\ probe.kind = "construct"
    /\ probe.made /\ ~probe.caught
    /\ probe' = [probe EXCEPT !.caught = TRUE,
                              !.rethrown = CatchBlock(Throw(probe.error, <<>>), opts).value]
    /\ UNCHANGED <<opts, pc, invocations, failureCount, settled, completion,
                   history, query, options, conc>>

ConstructNext == Construct \/ CatchConstructed

ConstructSpec == ConstructInit /\ [][ConstructNext]_vars

\* ---------------------------------------- hooks with different query keys

\* Number of hooks mounted side by side, each with a query key of its own.
MaxHooks == 2

Keys == 1..MaxHooks

\* What tells one hook's values from another's.
KeyName(k) == <<"k1", "k2", "k3", "k4">>[k]

\* The callbacks of one hook.
ConcOptions ==
    [onServerError : {"absent", "returns"}, onValidationErrors : {"returns"},
     onNetworkError : {"absent", "returns", "throwsError"},
     queryOptions : {NoOverrides}]

\* What the action of the hook with key k settles with.
OutcomesOf(k) ==
    {[kind |-> "resolved", value |-> ActionResult(Obj(KeyName(k)), Undefined, Undefined)],
     [kind |-> "resolved", value |-> ActionResult(Undefined, Str(KeyName(k)), Undefined)],
     [kind |-> "resolved",
      value |-> ActionResult(Undefined, Undefined, Tree(Arr(<<KeyName(k)>>), Undefined))],
     [kind |-> "rejected", value |-> NewError(KeyName(k), KeyName(k))]}

\* Mutant: the callbacks kept in one place for all hooks.
Closure_Shared(hooks, k) == hooks[1].opts

\* The callbacks the queryFn of the hook with key k closes over: those of its
\* own call of useSafeActionQuery.
Closure(hooks, k) == hooks[k].opts

ConcInit ==
    /\ opts = [onServerError |-> "absent", onValidationErrors |-> "absent",
               onNetworkError |-> "absent", queryOptions |-> NoOverrides]
    /\ pc = "idle"
    /\ invocations = 0
    /\ failureCount = 0
    /\ settled = None
    /\ completion = None
    /\ history = <<>>
    /\ query = [status |-> "pending", fetchStatus |-> "idle",
                data |-> Undefined, error |-> Null]
    /\ probe = None
    /\ options = UseQueryOptions(opts.queryOptions)
    /\ conc \in [Keys -> {[pc |-> "idle", opts |-> o, settled |-> None,
                           completion |-> None, abandoned |-> FALSE] :
                              o \in ConcOptions}]

\* The engine starts the attempt of the query with key k.
Begin(k) ==
    /\ conc[k].pc = "idle"
    /\ conc' = [conc EXCEPT ![k].pc = "fetching"]
    /\ UNCHANGED <<opts, pc, invocations, failureCount, settled, completion,
                   history, query, probe, options>>

\* The engine abandons the attempt of the query with key k while its action
\* call is in flight (the key changed, or the component went away): it
\* aborts the signal of the context it offered to queryFn.
Abandon(k) ==
    /\ conc[k].pc = "fetching"
    /\ ~conc[k].abandoned
    /\ conc' = [conc EXCEPT ![k].abandoned = TRUE]
    /\ UNCHANGED <<opts, pc, invocations, failureCount, settled, completion,
                   history, query, probe, options>>

\* Mutant: a queryFn that reads the signal and stops when it is aborted.
Attempt_ChecksSignal(outcome, o, aborted) ==
    IF aborted THEN Throw(Str("cancelled"), <<>>) ELSE queryFn(outcome, o)

\* queryFn as the engine calls it, with a context whose signal is aborted or
\* not: queryFn is declared with no parameter and reads none of it.
Attempt(outcome, o, aborted) == queryFn(outcome, o)

\* The action call of the hook with key k settles and its queryFn runs to its
\* end.
Settle(k, outcome) ==
    /\ conc[k].pc = "fetching"
    /\ conc' = [conc EXCEPT ![k].pc = "done",
                            ![k].settled = outcome,
                            ![k].completion =
                                Attempt(outcome, Closure(conc, k), conc[k].abandoned)]
    /\ UNCHANGED <<opts, pc, invocations, failureCount, settled, completion,
                   history, query, probe, options>>

ConcNext ==
    \E k \in Keys :
        \/ Begin(k)
        \/ Abandon(k)
        \/ \E outcome \in OutcomesOf(k) : Settle(k, outcome)

ConcSpec == ConcInit /\ [][ConcNext]_vars

TypeOK ==
    /\ pc \in {"idle", "fetching", "attempted", "waiting", "success", "error"}
    /\ invocations \in 0..MaxInvocations
    /\ failureCount \in 0..MaxInvocations
    /\ Len(history) <= invocations
    /\ probe = None
    /\ options = UseQueryOptions(opts.queryOptions)
    /\ conc = NoHooks

\* ------------------------------------------------------------------- claims

\* The current attempt's queryFn has run to its end.
Completed == completion.kind \in {"return", "throw"}

Resolved == settled.kind = "resolved"
Rejected == settled.kind = "rejected"

\* The fields of the outcome object the action resolved with.
OutServerError == OptGet(settled.value, "serverError")
OutValidationErrors == OptGet(settled.value, "validationErrors")
OutData == OptGet(settled.value, "data")

\* serverError is a non-empty string.
HasServerError == OutServerError.t = "string" /\ OutServerError.v # ""

\* validationErrors is a tree.
HasValidationErrors == OutValidationErrors.t = "tree"

\* The tree's top-level _errors list, an absent one read as empty.
TopErrors(tree) == IF tree._errors.t = "array" THEN tree._errors.items ELSE <<>>

\* queryFn threw a SafeActionError of the given type.
FailedWith(type) ==
    /\ completion.kind = "throw"
    /\ completion.value.t = "SafeActionError"
    /\ completion.value.type = type

\* The calls of one callback in the current attempt, in order.
CallsOf(name) == SelectSeq(completion.log, LAMBDA e : e.cb = name)

\* C1: a resolved outcome whose serverError is a non-empty string S fails with
\* a SafeActionError of type server, message S and no details, onServerError
\* (if supplied) is called exactly once with S, and the outcome is never a
\* success.
C1_ServerErrorFailsAsServer ==
    (Completed /\ Resolved /\ HasServerError) =>
        /\ FailedWith("server")
        /\ completion.value.message = OutServerError.v
        /\ completion.value.details = Undefined
        /\ opts.onServerError # "absent" =>
              CallsOf("onServerError") =
                  <<[cb |-> "onServerError", arg |-> Str(OutServerError.v)]>>
        /\ pc # "success"

\* C2: a resolved outcome with no populated serverError and a validationErrors
\* tree V fails with a SafeActionError of type validation whose details is V
\* and whose message is V's top-level _errors joined with ", ", and
\* onValidationErrors (if supplied) is called exactly once with that list.
C2_ValidationFailsAsValidation ==
    (Completed /\ Resolved /\ ~HasServerError /\ HasValidationErrors) =>
        /\ FailedWith("validation")
        /\ completion.value.details = OutValidationErrors
        /\ completion.value.message = Join(TopErrors(OutValidationErrors), ", ")
        /\ opts.onValidationErrors # "absent" =>
              CallsOf("onValidationErrors") =
                  <<[cb |-> "onValidationErrors",
                     arg |-> Arr(TopErrors(OutValidationErrors))]>>

\* A validation failure: the validationErrors branch threw its SafeActionError.
ValidationFailure ==
    /\ Completed /\ Resolved /\ ~HasServerError /\ HasValidationErrors
    /\ FailedWith("validation")

\* C3 as stated: the message of a validation failure is "Validation failed"
\* exactly when the top-level _errors list is empty or absent, and every
\* non-empty list gives the list joined with ", ".
C3_FallbackExactlyWhenListEmpty ==
    ValidationFailure =>
        /\ (completion.value.message = "Validation failed")
              <=> (TopErrors(OutValidationErrors) = <<>>)
        /\ TopErrors(OutValidationErrors) # <<>> =>
              completion.value.message = Join(TopErrors(OutValidationErrors), ", ")

\* C3 as amended: the message of a validation failure is "Validation failed"
\* when the top-level _errors list joins to the empty string (the list is
\* absent, empty, or holds one empty string) and is the list joined with ", "
\* otherwise; an absent list is read as empty, and that list is what
\* onValidationErrors receives.
C3_FallbackWhenJoinEmpty ==
    ValidationFailure =>
        /\ completion.value.message =
              IF TopErrors(OutValidationErrors) \in {<<>>, <<"">>}
              THEN "Validation failed"
              ELSE Join(TopErrors(OutValidationErrors), ", ")
        /\ opts.onValidationErrors # "absent" =>
              CallsOf("onValidationErrors") =
                  <<[cb |-> "onValidationErrors",
                     arg |-> Arr(TopErrors(OutValidationErrors))]>>

\* A validation failure whose _errors list is the one empty string.
C3_Witness ==
    /\ ValidationFailure
    /\ TopErrors(OutValidationErrors) = <<"">>
    /\ completion.value.message = "Validation failed"
    /\ opts.onValidationErrors = "returns"

\* C4: a resolved outcome with no populated serverError, no populated
\* validationErrors and data null or not present fails with a SafeActionError
\* of type server, message "No data returned from action" and no details.
C4_MissingDataFailsAsServer ==
    (Completed /\ Resolved /\ ~HasServerError /\ ~HasValidationErrors
        /\ OutData.t \in {"undefined", "null"}) =>
        /\ FailedWith("server")
        /\ completion.value.message = "No data returned from action"
        /\ completion.value.details = Undefined

\* A resolved outcome { data: null } has been classified.
C4_Witness ==
    /\ Completed /\ Resolved
    /\ settled.value.t = "result"
    /\ settled.value.data = Null
    /\ ~HasServerError /\ ~HasValidationErrors
    /\ pc = "error"

\* The outcome carries data and no populated error field.
DataOnly ==
    /\ Completed /\ Resolved /\ ~HasServerError /\ ~HasValidationErrors
    /\ OutData.t \notin {"undefined", "null"}

\* C5: a resolved outcome with non-null data and no populated error field
\* succeeds with exactly that data, the query settles with status success and
\* error null, and no callback is called.
C5_DataSucceeds ==
    DataOnly =>
        /\ completion = [kind |-> "return", value |-> OutData, log |-> <<>>]
        /\ pc \in {"attempted", "success"}
        /\ pc = "success" =>
              /\ query.status = "success"
              /\ query.data = OutData
              /\ query.error = Null

\* The query has settled in success with the data of the outcome.
C5_Witness ==
    /\ DataOnly
    /\ pc = "success"
    /\ query.data = Obj("{id:1}")
    /\ opts.onServerError = "returns"

\* C6: when the action call rejects with an error object E of message M, the
\* attempt fails with a SafeActionError of type network, message
\* "Network error: " followed by M and details E itself, and onNetworkError
\* (if supplied) is called exactly once with E.
C6_RejectionWithErrorFailsAsNetwork ==
    (Completed /\ Rejected /\ IsError(settled.value)) =>
        /\ FailedWith("network")
        /\ completion.value.message = "Network error: " \o settled.value.message
        /\ completion.value.details = settled.value
        /\ opts.onNetworkError # "absent" =>
              CallsOf("onNetworkError") =
                  <<[cb |-> "onNetworkError", arg |-> settled.value]>>

\* The error created in the catch block for a rejection that is no Error.
FreshError == NewError("Unknown error occurred", "fresh")

\* C7: when the action call rejects with a value that is no error object, the
\* attempt fails with type network, message
\* "Network error: Unknown error occurred" and details a fresh error of
\* message "Unknown error occurred", and onNetworkError (if supplied) receives
\* that fresh error, not the rejected value.
C7_RejectionWithValueFailsAsNetwork ==
    (Completed /\ Rejected /\ ~IsError(settled.value)) =>
        /\ FailedWith("network")
        /\ completion.value.message = "Network error: Unknown error occurred"
        /\ completion.value.details = FreshError
        /\ opts.onNetworkError # "absent" =>
              CallsOf("onNetworkError") =
                  <<[cb |-> "onNetworkError", arg |-> FreshError]>>

\* C8: retry returns false for type validation, false for type server, and
\* for type network true exactly when the attempt count is below 3.
C8_RetryPolicy ==
    (probe.kind = "probe" /\ probe.called) =>
        probe.returned =
            CASE probe.error.type = "validation" -> FALSE
              [] probe.error.type = "server" -> FALSE
              [] probe.error.type = "network" -> probe.failureCount < 3

\* retry has been called with count 3 and a network error, and said no.
C8_Witness ==
    /\ probe.kind = "probe" /\ probe.called
    /\ probe.error.type = "network"
    /\ probe.failureCount = 3
    /\ ~probe.returned

EveryCallRejected == \A i \in 1..Len(history) : history[i].settled = "rejected"

\* C10: a query whose action rejects on every call makes at most 4 calls and
\* settles in error holding a SafeActionError of type network.
C10_AlwaysRejectingSettlesAsNetwork ==
    EveryCallRejected =>
        /\ invocations <= 4
        /\ pc # "success"
        /\ pc = "error" =>
              /\ query.status = "error"
              /\ query.error.t = "SafeActionError"
              /\ query.error.type = "network"

\* C11: every error queryFn throws to the engine, and every error the caller
\* reads in the query's state, is a SafeActionError of type server,
\* validation or network; nothing the action or a callback threw leaves
\* queryFn as it is.
C11_OnlyClassifiedErrorsLeave ==
    /\ completion.kind = "throw" => Classified(completion.value)
    /\ pc = "error" => Classified(query.error)

\* The one call of a callback with an argument.
OneCall(name, arg) == <<[cb |-> name, arg |-> arg]>>

\* C12 as stated: in every attempt that fails with a SafeActionError, the
\* supplied callback matching the error's type has been called exactly once
\* by the time queryFn has thrown.
C12_MatchingCallbackOnce ==
    (completion.kind = "throw" /\ IsSafeActionError(completion.value)) =>
        /\ (completion.value.type = "server" /\ opts.onServerError # "absent")
              => Len(CallsOf("onServerError")) = 1
        /\ (completion.value.type = "validation" /\ opts.onValidationErrors # "absent")
              => Len(CallsOf("onValidationErrors")) = 1
        /\ (completion.value.type = "network" /\ opts.onNetworkError # "absent")
              => Len(CallsOf("onNetworkError")) = 1

\* C12 as amended: in an attempt that fails with a SafeActionError, a server
\* error made from a serverError string has had the supplied onServerError
\* called exactly once with that string, a validation error has had the
\* supplied onValidationErrors called exactly once with the _errors list, and
\* a network error has had the supplied onNetworkError called exactly once
\* with the error it wraps, as the last call; the error for missing data and
\* a SafeActionError the action rejected with have had no callback called.
\* The calls are made by the time queryFn has thrown, when the query's state
\* holds no error yet.
C12_CallbackOfTheBranchOnce ==
    (completion.kind = "throw" /\ IsSafeActionError(completion.value)) =>
        /\ (completion.value.type = "server" /\ Resolved /\ HasServerError
               /\ opts.onServerError # "absent")
              => completion.log = OneCall("onServerError", OutServerError)
        /\ (completion.value.type = "validation" /\ Resolved
               /\ opts.onValidationErrors # "absent")
              => completion.log =
                     OneCall("onValidationErrors", Arr(TopErrors(OutValidationErrors)))
        /\ (completion.value.type = "network" /\ opts.onNetworkError # "absent")
              => /\ CallsOf("onNetworkError") =
                        OneCall("onNetworkError", completion.value.details)
                 /\ completion.log[Len(completion.log)].cb = "onNetworkError"
        /\ (completion.value.type = "server" /\ Resolved /\ ~HasServerError)
              => completion.log = <<>>
        /\ (Rejected /\ IsSafeActionError(settled.value))
              => completion.log = <<>>
        /\ pc = "attempted" => query.error = Null

\* queryFn has just thrown the server error of a serverError string, after one
\* call of the supplied onServerError, and the engine has not settled the query.
C12_Witness ==
    /\ pc = "attempted"
    /\ Resolved /\ HasServerError
    /\ FailedWith("server")
    /\ opts.onServerError = "returns"
    /\ CallsOf("onServerError") = OneCall("onServerError", OutServerError)
    /\ query.error = Null

\* C13: one attempt calls at most one callback in all, and none when it
\* succeeds.
C13_AtMostOneCallbackPerAttempt ==
    Completed =>
        /\ Len(completion.log) <= 1
        /\ completion.kind = "return" => completion.log = <<>>

\* C14: the options useQuery is called with carry staleTime 30000 and
\* throwOnError false when the caller's options have no such property, and
\* the caller's value for each one the caller's options have.
C14_DefaultsUnlessCallerOverrides ==
    /\ options["staleTime"] =
          IF "staleTime" \in DOMAIN opts.queryOptions
          THEN opts.queryOptions["staleTime"] ELSE Num("30000")
    /\ options["throwOnError"] =
          IF "throwOnError" \in DOMAIN opts.queryOptions
          THEN opts.queryOptions["throwOnError"] ELSE Bool("false")

\* A running query whose caller gave a staleTime of its own and no
\* throwOnError.
C14_Witness ==
    /\ pc = "fetching"
    /\ "staleTime" \in DOMAIN opts.queryOptions
    /\ opts.queryOptions["staleTime"] = Num("60000")
    /\ options["staleTime"] = Num("60000")
    /\ "throwOnError" \notin DOMAIN opts.queryOptions
    /\ options["throwOnError"] = Bool("false")

\* The caller passed enabled: false.
CallerDisabled ==
    /\ "enabled" \in DOMAIN opts.queryOptions
    /\ opts.queryOptions["enabled"] = Bool("false")

\* C15: every engine option the caller passes is among the options useQuery
\* is called with, and when the caller passes enabled: false the action is
\* never called, no callback is called, and the query stays in status pending
\* with fetchStatus idle.
C15_DisabledNeverFetches ==
    /\ \A k \in DOMAIN opts.queryOptions : options[k] = opts.queryOptions[k]
    /\ CallerDisabled =>
          /\ invocations = 0
          /\ history = <<>>
          /\ completion = None
          /\ query.status = "pending"
          /\ query.fetchStatus = "idle"

\* A hook with all three callbacks supplied and enabled: false, at rest.
C15_Witness ==
    /\ CallerDisabled
    /\ opts.onServerError = "returns"
    /\ options["enabled"] = Bool("false")
    /\ pc = "idle"
    /\ query.status = "pending"
    /\ query.fetchStatus = "idle"

\* C16: two calls of retry with the same failureCount and errors of the same
\* type return the same decision, whatever the errors' messages and details
\* and whichever call came first.
C16_DecisionByCountAndTypeAlone ==
    (probe.kind = "probe" /\ probe.called /\ probe.called2
        /\ probe.failureCount = probe.failureCount2
        /\ probe.error.type = probe.error2.type)
    => probe.returned = probe.returned2

\* Two calls with failureCount 1 and network errors that differ in message and
\* details both said to retry.
C16_Witness ==
    /\ probe.kind = "probe" /\ probe.called /\ probe.called2
    /\ probe.failureCount = 1 /\ probe.failureCount2 = 1
    /\ probe.error.type = "network" /\ probe.error2.type = "network"
    /\ probe.error.message # probe.error2.message
    /\ probe.error.details = Undefined
    /\ probe.error2.details # Undefined
    /\ probe.returned /\ probe.returned2

\* C17: new SafeActionError(message, type, details?) has the message, type
\* and details it was given (details undefined when there is no third
\* argument) and the name "SafeActionError"; its type is one of server,
\* validation and network, and the object is the same after it has been
\* thrown and caught.
C17_ConstructorKeepsArguments ==
    (probe.kind = "construct" /\ probe.made) =>
        /\ probe.error.message = probe.args.message
        /\ probe.error.type = probe.args.type
        /\ probe.error.details =
              IF probe.args.given = 3 THEN probe.args.details ELSE Undefined
        /\ probe.error.name = "SafeActionError"
        /\ probe.error.type \in ErrorTypes
        /\ probe.caught =>
              /\ probe.rethrown = probe.error
              /\ probe.rethrown.type = probe.args.type

\* An error made with two arguments has undefined details and is still of its
\* type after it was thrown and caught.
C17_Witness ==
    /\ probe.kind = "construct" /\ probe.made /\ probe.caught
    /\ probe.args.given = 2
    /\ probe.args.type = "validation"
    /\ probe.error.details = Undefined
    /\ probe.rethrown.type = "validation"

\* C18: every attempt in which the action call rejects fails with a
\* SafeActionError of type network, whatever the action rejected with.
C18_EveryRejectionFailsAsNetwork ==
    (Completed /\ Rejected) => FailedWith("network")

\* What the classification steps of the current attempt raised.
Raised == TryBlock(settled, opts)

\* C19: a SafeActionError raised by the server error, validation or missing
\* data step is what queryFn throws and what the query's state holds, the
\* same in type, message and details: it is not wrapped as a network error
\* and onNetworkError is not called.
C19_ClassifiedErrorRethrownUnchanged ==
    (Completed /\ Resolved /\ Raised.kind = "throw" /\ IsSafeActionError(Raised.value)) =>
        /\ completion.value = Raised.value
        /\ completion.value.type \in {"server", "validation"}
        /\ CallsOf("onNetworkError") = <<>>
        /\ pc = "error" => query.error = Raised.value

\* A validation error raised while onNetworkError is supplied has reached the
\* query's state with the tree as its details.
C19_Witness ==
    /\ pc = "error"
    /\ Resolved /\ HasValidationErrors
    /\ opts.onNetworkError = "returns"
    /\ FailedWith("validation")
    /\ query.error.type = "validation"
    /\ query.error.details = OutValidationErrors
    /\ CallsOf("onNetworkError") = <<>>

\* The values of the hook with key k: its data, its server error string, its
\* validation tree, the error its action rejects with.
OwnValues(k) ==
    {Obj(KeyName(k)), Str(KeyName(k)), Tree(Arr(<<KeyName(k)>>), Undefined),
     Arr(<<KeyName(k)>>), NewError(KeyName(k), KeyName(k))}

\* C20: whatever the order in which hooks with different keys start and
\* settle, each attempt's completion is the one its own outcome and callbacks
\* give: it calls only callbacks its own hook supplied, with its own values,
\* returns its own data, and fails with an error made of its own values.
C20_AttemptsOfDifferentKeysIndependent ==
    \A k \in Keys :
        conc[k].pc = "done" =>
            /\ conc[k].completion = queryFn(conc[k].settled, conc[k].opts)
            /\ \A i \in 1..Len(conc[k].completion.log) :
                  /\ conc[k].opts[conc[k].completion.log[i].cb] # "absent"
                  /\ conc[k].completion.log[i].arg \in OwnValues(k)
            /\ conc[k].completion.kind = "return" =>
                  conc[k].completion.value = Obj(KeyName(k))
            /\ (conc[k].completion.kind = "throw"
                   /\ IsSafeActionError(conc[k].completion.value)) =>
                  \/ conc[k].completion.value.details \in OwnValues(k)
                  \/ /\ conc[k].completion.value.details = Undefined
                     /\ conc[k].completion.value.message = KeyName(k)

\* Both hooks' actions returned a server error: the first hook told its
\* onServerError, the second, which has none, called nothing.
C20_Witness ==
    /\ conc[1].pc = "done" /\ conc[2].pc = "done"
    /\ conc[1].opts.onServerError = "returns"
    /\ conc[2].opts.onServerError = "absent"
    /\ conc[1].completion.log = OneCall("onServerError", Str(KeyName(1)))
    /\ conc[2].completion.log = <<>>
    /\ conc[2].completion.kind = "throw"
    /\ conc[2].completion.value.message = KeyName(2)

\* The modes in which a callback throws.
Throwing == {"throwsError", "throwsValue"}

\* onServerError or onValidationErrors threw while the current attempt's
\* resolved outcome was handled.
CallbackThrew ==
    /\ Completed /\ Resolved
    /\ \/ HasServerError /\ opts.onServerError \in Throwing
       \/ ~HasServerError /\ HasValidationErrors /\ opts.onValidationErrors \in Throwing

\* What that callback threw.
ThrownByCallback ==
    IF HasServerError THEN CallbackThrown(opts.onServerError)
    ELSE CallbackThrown(opts.onValidationErrors)

\* C22: when onServerError or onValidationErrors throws X while a resolved
\* outcome is handled, the attempt fails with type network and details X,
\* not with server or validation; onNetworkError, if supplied, is called
\* with X, or with the "Unknown error occurred" error when X is no error
\* object; and retry says to go again for a first failure.
C22_ThrowingCallbackFailsAsNetwork ==
    CallbackThrew =>
        /\ FailedWith("network")
        /\ completion.value.details = ThrownByCallback
        /\ opts.onNetworkError # "absent" =>
              CallsOf("onNetworkError") =
                  OneCall("onNetworkError",
                          IF IsError(ThrownByCallback) THEN ThrownByCallback
                          ELSE FreshError)
        /\ retry(0, completion.value)

\* The falsy values that are neither null nor undefined.
FalsyData == {Num("0"), Bool("false"), Str("")}

\* C24: a resolved outcome with no populated error field whose data is 0,
\* false or the empty string succeeds with that value: queryFn returns it,
\* no "No data returned from action" error is made, and the query settles in
\* success holding it.
C24_FalsyDataSucceeds ==
    (Completed /\ Resolved /\ ~HasServerError /\ ~HasValidationErrors
        /\ OutData \in FalsyData) =>
        /\ completion.kind = "return"
        /\ completion.value = OutData
        /\ pc # "error"
        /\ pc = "success" => (query.data = OutData /\ query.status = "success")

\* The query has settled in success with the data 0.
C24_Witness ==
    /\ Completed /\ Resolved
    /\ OutData = Num("0")
    /\ pc = "success"
    /\ query.data = Num("0")
    /\ query.error = Null

\* serverError is the empty string.
EmptyServerError == Completed /\ Resolved /\ OutServerError = Str("")

\* C25: a serverError that is the empty string counts as not populated:
\* onServerError is not called and no server error of message "" is made;
\* the validationErrors check comes next (its callback, if supplied, is the
\* first one called when there is a tree) and then the data check, so that
\* with data present and no tree queryFn returns the data.
C25_EmptyServerErrorNotPopulated ==
    EmptyServerError =>
        /\ CallsOf("onServerError") = <<>>
        /\ ~(FailedWith("server") /\ completion.value.message = "")
        /\ (HasValidationErrors /\ opts.onValidationErrors # "absent") =>
              completion.log[1] =
                  [cb |-> "onValidationErrors", arg |-> Arr(TopErrors(OutValidationErrors))]
        /\ (HasValidationErrors /\ opts.onValidationErrors \in {"absent", "returns"}) =>
              (FailedWith("validation") /\ completion.value.details = OutValidationErrors)
        /\ (~HasValidationErrors /\ OutData.t \notin {"undefined", "null"}) =>
              completion = [kind |-> "return", value |-> OutData, log |-> <<>>]
        /\ (~HasValidationErrors /\ OutData.t \in {"undefined", "null"}) =>
              (FailedWith("server")
                  /\ completion.value.message = "No data returned from action")

\* An outcome with serverError "" and data has settled in success while
\* onServerError was supplied.
C25_Witness ==
    /\ EmptyServerError
    /\ opts.onServerError = "returns"
    /\ OutData = Obj("{id:1}")
    /\ pc = "success"
    /\ query.data = Obj("{id:1}")
    /\ completion.log = <<>>

\* The attempt failed for missing data.
MissingDataFailure ==
    /\ Completed /\ Resolved /\ ~HasServerError /\ ~HasValidationErrors
    /\ OutData.t \in {"undefined", "null"}

\* C27: an attempt that fails for missing data calls none of the three
\* callbacks, and in any attempt onServerError is called only for a
\* serverError string of the outcome, with that string.
C27_MissingDataCallsNoCallback ==
    /\ MissingDataFailure =>
          /\ FailedWith("server")
          /\ completion.value.message = "No data returned from action"
          /\ completion.log = <<>>
    /\ (Completed /\ CallsOf("onServerError") # <<>>) =>
          /\ Resolved /\ HasServerError
          /\ CallsOf("onServerError") = OneCall("onServerError", OutServerError)

\* The query settled in error for missing data with all three callbacks
\* supplied and none called.
C27_Witness ==
    /\ MissingDataFailure
    /\ opts.onServerError = "returns"
    /\ opts.onValidationErrors = "returns"
    /\ opts.onNetworkError = "returns"
    /\ completion.log = <<>>
    /\ pc = "error"
    /\ query.error.message = "No data returned from action"

\* C26: under the built-in retry policy a further attempt is made only after
\* attempts that all failed with type network, and never a fifth: a success
\* or a server or validation failure is the fetch's last attempt, after which
\* the query settles in success with that attempt's data and no error, or in
\* error with that attempt's error.
C26_AttemptsContinueOnlyAfterNetworkFailures ==
    /\ invocations <= 4
    /\ \A i \in 1..Len(history) :
          /\ i < Len(history) => history[i].kind = "network"
          /\ (i = Len(history) /\ pc \in {"waiting", "fetching"}) =>
                history[i].kind = "network"
          /\ history[i].kind \in {"success", "server", "validation"} =>
                (i = Len(history) /\ pc \in {"attempted", "success", "error"})
    /\ pc = "success" =>
          /\ history[Len(history)].kind = "success"
          /\ query.status = "success"
          /\ query.data = completion.value
          /\ query.error = Null
    /\ pc = "error" =>
          /\ history[Len(history)].kind \in {"server", "validation", "network"}
          /\ query.status = "error"
          /\ query.error = completion.value

\* The caller passed a retry option of its own.
CallerRetries == "retry" \in DOMAIN opts.queryOptions

\* C23: a retry option of the caller's is the one useQuery is called with, in
\* place of the built-in function, and the engine's decisions are that
\* value's for failures of every type: with false no failure is retried, a
\* network failure included; with true every failure is retried, server and
\* validation failures included; with 1 the first failure is retried and the
\* second is not.
C23_CallerRetryReplacesBuiltIn ==
    CallerRetries =>
        /\ options["retry"] = opts.queryOptions["retry"]
        /\ options["retry"] # Fn("retry")
        /\ opts.queryOptions["retry"] = Bool("false") =>
              (failureCount = 0 /\ invocations <= 1 /\ pc # "waiting")
        /\ opts.queryOptions["retry"] = Bool("true") =>
              (pc # "error" /\ (pc \in {"waiting", "fetching"} => failureCount = Len(history)))
        /\ opts.queryOptions["retry"] = Num("1") =>
              /\ failureCount <= 1 /\ invocations <= 2
              /\ pc = "error" => (failureCount = 1 /\ invocations = 2)

\* With retry: true a server failure and then a validation failure were each
\* followed by a further attempt.
C23_Witness ==
    /\ CallerRetries
    /\ opts.queryOptions["retry"] = Bool("true")
    /\ Len(history) >= 3
    /\ history[1].kind = "server"
    /\ history[2].kind = "validation"
    /\ invocations >= 3

\* Which of its outcomes an action settled with.
OutcomeKind(s) ==
    IF s.kind = "rejected" THEN "rejected"
    ELSE IF Truthy(OptGet(s.value, "serverError")) THEN "serverError"
    ELSE IF Truthy(OptGet(s.value, "validationErrors")) THEN "validationErrors"
    ELSE "data"

\* What an attempt did, the hook's own values left aside: whether it returned
\* or threw, the type of its error, the callbacks it called in order.
Shape(c) == <<c.kind, KindOf(c), [i \in 1..Len(c.log) |-> c.log[i].cb]>>

\* C21: an attempt the engine abandoned while its action call was in flight
\* runs to its end like any other once the action settles: it calls the
\* callbacks and makes the error that an attempt not abandoned calls and makes
\* for the same kind of outcome and the same callbacks; with callbacks that
\* return, a server error, validation errors and a rejection each have their
\* callback called once and their SafeActionError thrown.
C21_AbandonedAttemptStillRunsToItsEnd ==
    \A k \in Keys :
        (conc[k].pc = "done" /\ conc[k].abandoned) =>
            /\ \A j \in Keys :
                  (conc[j].pc = "done" /\ ~conc[j].abandoned
                      /\ conc[j].opts = conc[k].opts
                      /\ OutcomeKind(conc[j].settled) = OutcomeKind(conc[k].settled))
                  => Shape(conc[j].completion) = Shape(conc[k].completion)
            /\ (OutcomeKind(conc[k].settled) = "serverError"
                   /\ conc[k].opts.onServerError = "returns") =>
                  /\ conc[k].completion.log = OneCall("onServerError", Str(KeyName(k)))
                  /\ KindOf(conc[k].completion) = "server"
            /\ OutcomeKind(conc[k].settled) = "validationErrors" =>
                  /\ conc[k].completion.log =
                        OneCall("onValidationErrors", Arr(<<KeyName(k)>>))
                  /\ KindOf(conc[k].completion) = "validation"
            /\ (OutcomeKind(conc[k].settled) = "rejected"
                   /\ conc[k].opts.onNetworkError = "returns") =>
                  /\ conc[k].completion.log =
                        OneCall("onNetworkError", NewError(KeyName(k), KeyName(k)))
                  /\ KindOf(conc[k].completion) = "network"

\* The first hook's attempt was abandoned, the second's was not; both actions
\* then rejected, and both attempts called onNetworkError and threw a network
\* error.
C21_Witness ==
    /\ conc[1].pc = "done" /\ conc[1].abandoned
    /\ conc[2].pc = "done" /\ ~conc[2].abandoned
    /\ conc[1].opts = conc[2].opts
    /\ conc[1].opts.onNetworkError = "returns"
    /\ OutcomeKind(conc[1].settled) = "rejected"
    /\ OutcomeKind(conc[2].settled) = "rejected"
    /\ conc[1].completion.log = OneCall("onNetworkError", NewError(KeyName(1), KeyName(1)))
    /\ KindOf(conc[1].completion) = "network"
    /\ Shape(conc[1].completion) = Shape(conc[2].completion)

====
